---- MODULE Spec2Model ----
(***************************************************************************)
(* A model of trade_analysis.py: validate_json_string, load_and_clean_data,*)
(* calculate_metrics, rank_accounts, save_metrics and the main flow.       *)
(*                                                                         *)
(* float64 values are fixed-point integers counted in units of 1/Scale;    *)
(* NaN and the infinities are tagged cells.  A table (DataFrame) is a      *)
(* record [cols, rows]: the set of its column names and the sequence of    *)
(* its rows.                                                               *)
(***************************************************************************)
EXTENDS Integers, Sequences, FiniteSets, TLC

VARIABLES
    pc,          \* the statement of the main flow that runs next
    csv,         \* the input file, trade_data.csv
    trade_data,  \* what load_and_clean_data returned
    metrics,     \* what calculate_metrics returned; rank_accounts adds columns
    top_n,       \* the row count nsmallest was run with (0: not yet run)
    top_20,      \* what rank_accounts returned
    output,      \* the output file, top_20_accounts.csv
    error,       \* the exception that ended the run
    stdout       \* the lines printed so far

vars == <<pc, csv, trade_data, metrics, top_n, top_20, output, error, stdout>>

(***************************************************************************)
(* Bounds of the model.                                                    *)
(***************************************************************************)
\* fixed-point resolution: the float64 1.0 is 10 * Resolution model units
Resolution == 100
\* rows of the input CSV file
MaxCsvRows == 2
\* distinct Port_IDs in the input CSV file
MaxAccounts == 2
\* rows of a trade table handed to calculate_metrics
MaxRows == 3
\* accounts of a metrics table handed to rank_accounts
MaxRanked == 3
\* values of the row count n that nsmallest is run with
MaxTopN == 2

\* the float64 1.0 in model units; a multiple of 10 and of 2, so that the
\* weights (tenths) and the ranks of tied rows (halves) are exact
Scale == 10 * Resolution

(***************************************************************************)
(* Cells.                                                                  *)
(***************************************************************************)
Num(x) == [k |-> "num", v |-> x]
NaN == [k |-> "nan", v |-> 0]
PosInf == [k |-> "inf", v |-> 0]
NegInf == [k |-> "ninf", v |-> 0]
\* a key a mapping does not have (no cell at all)
Absent == [k |-> "absent", v |-> 0]
\* a value arithmetic and comparison with a number raise TypeError on (a str)
BadStr == [k |-> "str", v |-> 0]

IsNum(c) == c.k = "num"
IsNaN(c) == c.k = "nan"

Fields == {"price", "quantity", "realizedProfit"}

(***************************************************************************)
(* Outcomes of a call: a returned value or a raised exception.             *)
(***************************************************************************)
Return(x) == [ok |-> TRUE, val |-> x, exc |-> "", msg |-> ""]
Raise(e, m) == [ok |-> FALSE, val |-> <<>>, exc |-> e, msg |-> m]

NoError == [exc |-> "", msg |-> ""]
ErrorOf(r) == [exc |-> r.exc, msg |-> r.msg]

(***************************************************************************)
(* Raw Trade_History fields, as pd.read_csv hands them over.               *)
(*   form "na"      the missing-value marker (an empty cell)               *)
(*   form "nonstr"  a value that is no string and not missing (a number)   *)
(*   form "json"    text that is valid JSON: a list of mappings            *)
(*   form "pylit"   text that is no JSON but a Python literal: a list or   *)
(*                  a tuple of single-quoted mappings                      *)
(*   form "pyset"   text that is no JSON but a Python set literal          *)
(*   form "garbage" text that is neither                                   *)
(* An entry (a mapping) is a record of the three trade fields; a key the   *)
(* mapping lacks is Absent, a JSON null is NaN, JSON Infinity is PosInf.   *)
(***************************************************************************)
Entry(p, q, r) == [price |-> p, quantity |-> q, realizedProfit |-> r]

Text(form, container, items) == [form |-> form, container |-> container, items |-> items]

\* a Python object: None, a list, a tuple or a set
Obj(type, items) == [type |-> type, items |-> items]
None == Obj("none", <<>>)

\* pd.isna on a scalar
isna(raw) == raw.form = "na"

\* json.loads: TypeError on a non-string, JSONDecodeError on text that is no JSON
json_loads(raw) ==
    IF raw.form = "nonstr" THEN Raise("TypeError", "the JSON object must be str")
    ELSE IF raw.form = "json" THEN Return(Obj("list", raw.items))
    ELSE Raise("JSONDecodeError", "")

\* ast.literal_eval on text json.loads has refused
literal_eval(raw) ==
    IF raw.form = "pylit" THEN Return(Obj(raw.container, raw.items))
    ELSE IF raw.form = "pyset" THEN Return(Obj("set", raw.items))
    ELSE Raise("SyntaxError", "")

\* json.dumps: a tuple is written as a JSON array, a set is not serializable
json_dumps(data) ==
    IF data.type = "set" THEN Raise("TypeError", "Object of type set is not JSON serializable")
    ELSE Return(Text("json", "list", data.items))

\* the except clause of line 20
Caught == {"ValueError", "SyntaxError", "JSONDecodeError"}

Absorb(r) == IF r.exc \in Caught THEN Return(None) ELSE r

validate_json_string(json_str) ==
    IF isna(json_str) THEN Return(None)
    ELSE LET first == json_loads(json_str) IN
         IF first.ok THEN first
         ELSE IF first.exc # "JSONDecodeError" THEN first
         ELSE LET data == literal_eval(json_str) IN
              IF ~data.ok THEN Absorb(data)
              ELSE LET dumped == json_dumps(data.val) IN
                   IF ~dumped.ok THEN Absorb(dumped)
                   ELSE LET again == json_loads(dumped.val) IN
                        IF again.ok THEN again ELSE Absorb(again)

(***************************************************************************)
(* Tables and sequence helpers.                                            *)
(***************************************************************************)
Table(cols, rows) == [cols |-> cols, rows |-> rows]
EmptyTable == Table({}, <<>>)

RECURSIVE Concat(_)
\* the concatenation of a sequence of sequences
Concat(ss) == IF ss = <<>> THEN <<>> ELSE Head(ss) \o Concat(Tail(ss))

RECURSIVE Filter(_, _)
\* the subsequence of s at the positions in keep, in order
Filter(s, keep) ==
    IF s = <<>> THEN <<>>
    ELSE LET n == Len(s)
             front == Filter(SubSeq(s, 1, n - 1), keep)
         IN  IF n \in keep THEN Append(front, s[n]) ELSE front

(***************************************************************************)
(* load_and_clean_data.  The file is [status, columns, rows]: what         *)
(* pd.read_csv does with it, the column names it has, and its rows         *)
(* [Port_IDs, Trade_History].                                              *)
(***************************************************************************)
required_columns == {"Port_IDs", "Trade_History"}

\* lines 24-29
read_csv(file) ==
    IF file.status = "notfound" THEN Raise("FileNotFoundError", "Could not find the file")
    ELSE IF file.status = "unreadable" THEN Raise("ValueError", "Error reading CSV file")
    ELSE Return(file)

\* line 39: Series.apply stops at the first element the function raises on
ApplyValidate(rows) ==
    LET outs == [i \in 1..Len(rows) |-> validate_json_string(rows[i].Trade_History)]
        bad == {i \in 1..Len(rows) : ~outs[i].ok}
    IN  IF bad # {}
        THEN outs[CHOOSE i \in bad : \A j \in bad : i <= j]
        ELSE Return([i \in 1..Len(rows) |->
                        [Port_IDs |-> rows[i].Port_IDs, Trade_History |-> outs[i].val]])

\* lines 42-45: the rows whose Trade_History is not None
DropInvalid(rows) == Filter(rows, {i \in 1..Len(rows) : rows[i].Trade_History # None})

\* line 52: a non-empty list gives one row per element, an empty list one row
\* whose Trade_History is NaN
ExplodeRow(row) ==
    LET items == row.Trade_History.items IN
    IF items = <<>>
    THEN <<[Port_IDs |-> row.Port_IDs, isna |-> TRUE, entry |-> Entry(Absent, Absent, Absent)]>>
    ELSE [j \in 1..Len(items) |->
             [Port_IDs |-> row.Port_IDs, isna |-> FALSE, entry |-> items[j]]]

explode(rows) == Concat([i \in 1..Len(rows) |-> ExplodeRow(rows[i])])

\* a cell of a column of the normalized table: a key the mapping lacks is NaN
\* in a column some other mapping has, and there is no cell in no column
Cell(cols, f, c) == IF f \notin cols THEN Absent ELSE IF c.k = "absent" THEN NaN ELSE c

\* line 53: the non-NaN elements, one row per mapping, the columns the union
\* of the keys
json_normalize(exploded) ==
    LET kept == Filter(exploded, {i \in 1..Len(exploded) : ~exploded[i].isna})
        cols == {f \in Fields : \E i \in 1..Len(kept) : kept[i].entry[f].k # "absent"}
    IN  Table(cols, [i \in 1..Len(kept) |->
                        [f \in Fields |-> Cell(cols, f, kept[i].entry[f])]])

\* lines 56-59: both indexes are reset, so row i of the one is put beside
\* row i of the other; the shorter table is padded with NaN
concat(exploded, normalized) ==
    Table({"Port_IDs"} \cup normalized.cols,
          [i \in 1..Len(exploded) |->
              LET cellOf(f) == IF i <= Len(normalized.rows)
                               THEN normalized.rows[i][f]
                               ELSE Cell(normalized.cols, f, Absent)
              IN  [Port_IDs |-> exploded[i].Port_IDs,
                   price |-> cellOf("price"),
                   quantity |-> cellOf("quantity"),
                   realizedProfit |-> cellOf("realizedProfit")]])

\* line 65: the first of equal rows is kept
drop_duplicates(t) ==
    Table(t.cols, Filter(t.rows, {i \in 1..Len(t.rows) :
                                     \A j \in 1..(i - 1) : t.rows[j] # t.rows[i]}))

ReplaceCell(c) == IF c.k \in {"inf", "ninf"} THEN NaN ELSE c

\* line 68
replace_inf(t) ==
    Table(t.cols, [i \in 1..Len(t.rows) |->
                      [t.rows[i] EXCEPT !.price = ReplaceCell(@),
                                        !.quantity = ReplaceCell(@),
                                        !.realizedProfit = ReplaceCell(@)]])

\* line 69: the rows with no NaN in any column
dropna(t) ==
    Table(t.cols, Filter(t.rows, {i \in 1..Len(t.rows) :
                                     \A f \in Fields : ~IsNaN(t.rows[i][f])}))

\* lines 50-59
Normalize(rows) ==
    LET exploded == explode(rows) IN concat(exploded, json_normalize(exploded))

\* lines 64-69
Clean(t) == dropna(replace_inf(drop_duplicates(t)))

load_and_clean_data(file) ==
    LET df == read_csv(file) IN
    IF ~df.ok THEN df
    ELSE IF ~(required_columns \subseteq file.columns)
    THEN Raise("ValueError", "Dataset is missing required columns")
    ELSE LET parsed == ApplyValidate(file.rows) IN
         IF ~parsed.ok THEN parsed
         ELSE LET valid == DropInvalid(parsed.val) IN
              IF valid = <<>>
              THEN Raise("ValueError", "No valid trade data remaining after cleaning")
              ELSE Return(Clean(Normalize(valid)))

(***************************************************************************)
(* Fixed-point arithmetic.                                                 *)
(***************************************************************************)
\* the float64 x, for an integer x
F(x) == Num(x * Scale)

\* a / b for numbers in model units (b # 0), rounded down
FDiv(a, b) == IF b < 0 THEN ((0 - a) * Scale) \div (0 - b) ELSE (a * Scale) \div b

\* a / b for counts a and b (b # 0)
Ratio(a, b) == (a * Scale) \div b

RECURSIVE SqrtBetween(_, _, _)
\* the largest r in lo..hi with r * r <= x (lo * lo <= x)
SqrtBetween(x, lo, hi) ==
    IF lo = hi THEN lo
    ELSE LET mid == (lo + hi + 1) \div 2 IN
         IF mid * mid <= x THEN SqrtBetween(x, mid, hi) ELSE SqrtBetween(x, lo, mid - 1)

RECURSIVE Above(_, _)
\* a power of two whose square is above x, at or after h
Above(x, h) == IF h * h > x THEN h ELSE Above(x, 2 * h)

\* the square root of x >= 0, rounded down
Sqrt(x) == SqrtBetween(x, 0, Above(x, 1))

RECURSIVE Sum(_)
Sum(s) == IF s = <<>> THEN 0 ELSE Head(s) + Sum(Tail(s))

Max(S) == CHOOSE x \in S : \A y \in S : y <= x
Min(S) == CHOOSE x \in S : \A y \in S : x <= y

(***************************************************************************)
(* calculate_metrics.                                                      *)
(***************************************************************************)
\* line 77: Series.unique keeps the order of first appearance
unique(rows) ==
    LET first == {i \in 1..Len(rows) :
                     \A j \in 1..(i - 1) : rows[j].Port_IDs # rows[i].Port_IDs}
        kept == Filter(rows, first)
    IN  [i \in 1..Len(kept) |-> kept[i].Port_IDs]

\* line 87
AccountData(rows, account) ==
    Filter(rows, {i \in 1..Len(rows) : rows[i].Port_IDs = account})

\* lines 93-100
Roi(data) ==
    LET initial_balance == IF data = <<>> THEN 0
                           ELSE (data[1].price.v * data[1].quantity.v) \div Scale
        final_balance == IF data = <<>> THEN 0
                         ELSE (data[Len(data)].price.v * data[Len(data)].quantity.v) \div Scale
    IN  IF initial_balance # 0
        THEN Num(FDiv(final_balance - initial_balance, initial_balance))
        ELSE Num(0)

\* line 103
WinPositions(returns) == Cardinality({i \in 1..Len(returns) : returns[i] > 0})

\* line 109
Mean(returns) == IF returns = <<>> THEN 0 ELSE Sum(returns) \div Len(returns)

\* Series.std, the sample standard deviation (ddof = 1): NaN for one value
StdDdof1(returns) ==
    LET n == Len(returns)
        squares == Sum([i \in 1..n |-> returns[i] * returns[i]])
        total == Sum(returns)
    IN  IF n < 2 THEN NaN
        ELSE Num(Sqrt((n * squares - total * total) \div (n * (n - 1))))

\* line 110
StdReturn(returns) == IF returns = <<>> THEN Num(Scale) ELSE StdDdof1(returns)

\* line 111: NaN != 0 is true, and a division by NaN is NaN
SharpeRatio(returns) ==
    LET mean_return == Mean(returns)
        std_return == StdReturn(returns)
    IN  IF IsNaN(std_return) THEN NaN
        ELSE IF std_return.v # 0 THEN Num(FDiv(mean_return, std_return.v))
        ELSE Num(0)

\* as MaxDrawdown, but with the running maximum started at 0 instead of at
\* the first cumulative profit
MaxDrawdownFromZero(returns) ==
    LET n == Len(returns)
        cumulative_profit == [i \in 1..n |-> Sum(SubSeq(returns, 1, i))]
        max_profit == [i \in 1..n |-> Max({0} \cup {cumulative_profit[j] : j \in 1..i})]
        drawdown == [i \in 1..n |-> max_profit[i] - cumulative_profit[i]]
    IN  IF n = 0 THEN 0 ELSE Max({drawdown[i] : i \in 1..n})

\* lines 114-117
MaxDrawdown(returns) ==
    LET n == Len(returns)
        cumulative_profit == [i \in 1..n |-> Sum(SubSeq(returns, 1, i))]
        max_profit == [i \in 1..n |-> Max({cumulative_profit[j] : j \in 1..i})]
        drawdown == [i \in 1..n |-> max_profit[i] - cumulative_profit[i]]
    IN  IF n = 0 THEN 0 ELSE Max({drawdown[i] : i \in 1..n})

\* lines 86-132: one pass of the loop; arithmetic on a str raises TypeError
AccountMetrics(rows, account) ==
    LET account_data == AccountData(rows, account)
        n == Len(account_data)
    IN  IF \E i \in 1..n : account_data[i].realizedProfit.k = "str"
        THEN Raise("TypeError", "unsupported operand type(s)")
        ELSE LET returns == [i \in 1..n |-> account_data[i].realizedProfit.v]
                 win_positions == WinPositions(returns)
                 total_positions == n
             IN  Return([Port_IDs |-> account,
                         PnL |-> Num(Sum(returns)),
                         ROI |-> Roi(account_data),
                         Win_Rate |-> IF total_positions > 0
                                      THEN Num(Ratio(win_positions, total_positions))
                                      ELSE Num(0),
                         Win_Positions |-> win_positions,
                         Total_Positions |-> total_positions,
                         Sharpe_Ratio |-> SharpeRatio(returns),
                         MDD |-> Num(MaxDrawdown(returns))])

\* as MetricsLoop, but with the loop ended by the first pass that raises
MetricsLoopEndedByRaise(rows) ==
    LET accounts == unique(rows)
        outs == [i \in 1..Len(accounts) |-> AccountMetrics(rows, accounts[i])]
        done == Filter(outs, {i \in 1..Len(outs) : \A j \in 1..i : outs[j].ok})
    IN  [i \in 1..Len(done) |-> done[i].val]

\* lines 85-132: the records of the accounts whose pass did not raise
MetricsLoop(rows) ==
    LET accounts == unique(rows)
        outs == [i \in 1..Len(accounts) |-> AccountMetrics(rows, accounts[i])]
        done == Filter(outs, {i \in 1..Len(outs) : outs[i].ok})
    IN  [i \in 1..Len(done) |-> done[i].val]

calculate_metrics(trade_df) ==
    IF trade_df.rows = <<>>
    THEN Raise("ValueError", "Empty DataFrame provided for metrics calculation")
    ELSE IF ~(Fields \subseteq trade_df.cols)
    THEN Raise("ValueError", "Missing required columns for metrics calculation")
    ELSE LET found == MetricsLoop(trade_df.rows) IN
         IF found = <<>>
         THEN Raise("ValueError", "No valid metrics could be calculated")
         ELSE Return(found)

(***************************************************************************)
(* rank_accounts.                                                          *)
(***************************************************************************)
\* lines 143-148, in tenths
weights == [ROI |-> 4, PnL |-> 3, Sharpe_Ratio |-> 2, Win_Rate |-> 1]

Weight(col) == (weights[col] * Scale) \div 10

\* the values of a column that are numbers: Series.min and Series.max skip NaN
Numbers(rows, col) == {rows[i][col].v : i \in {j \in 1..Len(rows) : IsNum(rows[j][col])}}

\* line 152: (x - min) / (max - min); NaN for a NaN, and 0 / 0 is NaN
Normalized(rows, col, i) ==
    LET present == Numbers(rows, col) IN
    IF present = {} \/ ~IsNum(rows[i][col]) THEN NaN
    ELSE IF Max(present) = Min(present) THEN NaN
    ELSE Num(FDiv(rows[i][col].v - Min(present), Max(present) - Min(present)))

\* one term of lines 154-159
Term(col, c) == IF IsNum(c) THEN Num((Weight(col) * c.v) \div Scale) ELSE NaN

\* a + b on cells: NaN if either is
Plus(a, b) == IF IsNum(a) /\ IsNum(b) THEN Num(a.v + b.v) ELSE NaN

\* lines 154-159
Score(roi, pnl, sharpe, win) ==
    Plus(Plus(Plus(Term("ROI", roi), Term("PnL", pnl)), Term("Sharpe_Ratio", sharpe)),
         Term("Win_Rate", win))

\* lines 150-159: the table with the four normalized columns and Score
WithScore(rows) ==
    [i \in 1..Len(rows) |->
        LET roi == Normalized(rows, "ROI", i)
            pnl == Normalized(rows, "PnL", i)
            sharpe == Normalized(rows, "Sharpe_Ratio", i)
            win == Normalized(rows, "Win_Rate", i)
        IN  [Port_IDs |-> rows[i].Port_IDs,
             PnL |-> rows[i].PnL,
             ROI |-> rows[i].ROI,
             Win_Rate |-> rows[i].Win_Rate,
             Win_Positions |-> rows[i].Win_Positions,
             Total_Positions |-> rows[i].Total_Positions,
             Sharpe_Ratio |-> rows[i].Sharpe_Ratio,
             MDD |-> rows[i].MDD,
             ROI_normalized |-> roi,
             PnL_normalized |-> pnl,
             Sharpe_Ratio_normalized |-> sharpe,
             Win_Rate_normalized |-> win,
             Score |-> Score(roi, pnl, sharpe, win)]]

\* the rank of a group of `equal` tied values below `higher` better ones, as
\* method = 'min' gives it
MinRank(higher, equal) == (higher + 1) * Scale

\* the rank of a group of `equal` tied values below `higher` better ones:
\* Series.rank defaults to method = 'average', the mean of the places
\* higher + 1 .. higher + equal
AverageRank(higher, equal) == ((2 * higher + equal + 1) * Scale) \div 2

\* line 162: Series.rank(ascending=False); a NaN keeps NaN (na_option = 'keep')
RankOf(rows, i) ==
    IF ~IsNum(rows[i].Score) THEN NaN
    ELSE LET scored == {j \in 1..Len(rows) : IsNum(rows[j].Score)}
             higher == Cardinality({j \in scored : rows[j].Score.v > rows[i].Score.v})
             equal == Cardinality({j \in scored : rows[j].Score.v = rows[i].Score.v})
         IN  Num(AverageRank(higher, equal))

\* line 162
WithRank(rows) ==
    [i \in 1..Len(rows) |->
        [Port_IDs |-> rows[i].Port_IDs,
         PnL |-> rows[i].PnL,
         ROI |-> rows[i].ROI,
         Win_Rate |-> rows[i].Win_Rate,
         Win_Positions |-> rows[i].Win_Positions,
         Total_Positions |-> rows[i].Total_Positions,
         Sharpe_Ratio |-> rows[i].Sharpe_Ratio,
         MDD |-> rows[i].MDD,
         ROI_normalized |-> rows[i].ROI_normalized,
         PnL_normalized |-> rows[i].PnL_normalized,
         Sharpe_Ratio_normalized |-> rows[i].Sharpe_Ratio_normalized,
         Win_Rate_normalized |-> rows[i].Win_Rate_normalized,
         Score |-> rows[i].Score,
         Rank |-> RankOf(rows, i)]]

\* the sequences that hold each element of the set S once
Orders(S) ==
    {p \in [1..Cardinality(S) -> S] : \A a, b \in 1..Cardinality(S) : a # b => p[a] # p[b]}

\* an order of row numbers is ascending in Rank, NaN last
Ascending(rows, p) ==
    \A a, b \in 1..Len(p) :
        a < b => \/ ~IsNum(rows[p[b]].Rank)
                 \/ /\ IsNum(rows[p[a]].Rank)
                    /\ rows[p[a]].Rank.v <= rows[p[b]].Rank.v

\* ascending, and rows of equal Rank in the order of the table (a stable sort)
Stable(rows, p) ==
    /\ Ascending(rows, p)
    /\ \A a, b \in 1..Len(p) :
           (a < b /\ rows[p[a]].Rank = rows[p[b]].Rank) => p[a] < p[b]

\* DataFrame.nsmallest(n, 'Rank') with keep = 'first', as the orders of row
\* numbers it can give.  With n below the row count the n first rows of the
\* stable ascending order; otherwise the whole table sorted by Series.sort_values,
\* which does not say where tied rows go.  A pandas release either leaves the
\* rows whose Rank is NaN out or puts them after the ranked rows (keep_nan).
SelectFirst(rows, n, keep_nan) ==
    LET all == 1..Len(rows)
        pool == IF keep_nan THEN all ELSE {i \in all : IsNum(rows[i].Rank)}
    IN  IF n < Len(rows)
        THEN {SubSeq(p, 1, IF n < Len(p) THEN n ELSE Len(p)) :
                 p \in {q \in Orders(pool) : Stable(rows, q)}}
        ELSE {q \in Orders(pool) : Ascending(rows, q)}

\* keep = 'all': every row whose Rank is among the n smallest
SelectAll(rows, n, keep_nan) ==
    LET first == SelectFirst(rows, n, keep_nan)
    IN  {p \in UNION {Orders({i \in 1..Len(rows) :
                                 \E a \in 1..Len(q) : rows[i].Rank = rows[q[a]].Rank}) :
                         q \in first} : Ascending(rows, p)}

\* line 163
nsmallest(rows, n, keep_nan) == SelectFirst(rows, n, keep_nan)

\* lines 150-162: what the call leaves in metrics_df
Ranked(rows) == WithRank(WithScore(rows))

(***************************************************************************)
(* The main flow, lines 173-194.  An exception a call raises is not caught *)
(* there: the interpreter prints the traceback and exits with status 1.    *)
(***************************************************************************)
NoFile == [written |-> FALSE, rows |-> <<>>]

\* lines 38 and 44: what load_and_clean_data prints
LoadPrints(file) ==
    IF file.status # "ok" \/ ~(required_columns \subseteq file.columns) THEN <<>>
    ELSE LET parsed == ApplyValidate(file.rows) IN
         IF ~parsed.ok THEN <<"Parsing Trade_History column...">>
         ELSE IF DropInvalid(parsed.val) # parsed.val
         THEN <<"Parsing Trade_History column...", "Warning: Removed rows with invalid JSON data">>
         ELSE <<"Parsing Trade_History column...">>

\* lines 131: what calculate_metrics prints, one warning per account skipped
MetricsPrints(t) ==
    IF t.rows = <<>> \/ ~(Fields \subseteq t.cols) THEN <<>>
    ELSE LET accounts == unique(t.rows)
             skipped == Filter(accounts, {i \in 1..Len(accounts) :
                                             ~AccountMetrics(t.rows, accounts[i]).ok})
         IN  [i \in 1..Len(skipped) |-> "Warning: Error calculating metrics for account"]

\* as After, but going on after a call that raised
AfterIgnoringFailure(result, next) == next

\* where the flow goes after a call: on, or out with the exception
After(result, next) == IF result.ok THEN next ELSE "failed"

\* lines 179-180
Load ==
    /\ pc = "load"
    /\ LET result == load_and_clean_data(csv) IN
       /\ stdout' = stdout \o <<"Loading and cleaning data...">> \o LoadPrints(csv)
       /\ trade_data' = IF result.ok THEN result.val ELSE trade_data
       /\ error' = ErrorOf(result)
       /\ pc' = After(result, "metrics")
    /\ UNCHANGED <<csv, metrics, top_n, top_20, output>>

\* lines 183-184
Metrics ==
    /\ pc = "metrics"
    /\ LET result == calculate_metrics(trade_data) IN
       /\ stdout' = stdout \o <<"Calculating metrics...">> \o MetricsPrints(trade_data)
       /\ metrics' = IF result.ok THEN result.val ELSE metrics
       /\ error' = ErrorOf(result)
       /\ pc' = After(result, "rank")
    /\ UNCHANGED <<csv, trade_data, top_n, top_20, output>>

\* lines 187-188.  The call site passes 20 to nsmallest; the model runs it
\* with a row count n of 1..MaxTopN, so that tables of a few accounts are
\* both longer and shorter than n.
Rank ==
    /\ pc = "rank"
    /\ stdout' = Append(stdout, "Ranking accounts...")
    /\ metrics' = Ranked(metrics)
    /\ \E n \in 1..MaxTopN, keep_nan \in BOOLEAN :
           /\ top_n' = n
           /\ \E p \in nsmallest(metrics', n, keep_nan) :
                  top_20' = [a \in 1..Len(p) |-> metrics'[p[a]]]
    /\ pc' = After(Return(<<>>), "save")
    /\ UNCHANGED <<csv, trade_data, output, error>>

\* lines 191-194: the file is written and the closing line printed
Save ==
    /\ pc = "save"
    /\ stdout' = stdout \o <<"Saving results to top_20_accounts.csv...", "Analysis complete.">>
    /\ output' = [written |-> TRUE, rows |-> top_20]
    /\ pc' = "done"
    /\ UNCHANGED <<csv, trade_data, metrics, top_n, top_20, error>>

\* lines 191-192: to_csv raises (the disk is full, the path cannot be written)
SaveFails ==
    /\ pc = "save"
    /\ stdout' = Append(stdout, "Saving results to top_20_accounts.csv...")
    /\ error' = [exc |-> "OSError", msg |-> "cannot write the output file"]
    /\ pc' = "failed"
    /\ UNCHANGED <<csv, trade_data, metrics, top_n, top_20, output>>

Next == Load \/ Metrics \/ Rank \/ Save \/ SaveFails

(***************************************************************************)
(* The input files of the model.                                           *)
(***************************************************************************)
E1 == Entry(F(1), F(1), F(1))
E2 == Entry(F(2), F(1), F(0 - 1))
EInf == Entry(PosInf, F(1), F(1))
ENoQty == Entry(F(1), Absent, F(1))

TradeLists == {<<>>, <<E1>>, <<E1, E2>>, <<EInf>>, <<ENoQty>>}

RawFields ==
    {Text("json", "list", items) : items \in TradeLists}
        \cup {Text("pylit", "tuple", <<E2, E1>>), Text("pyset", "set", <<>>), Text("garbage", "", <<>>),
              Text("na", "", <<>>), Text("nonstr", "", <<>>)}

PortIds == 1..MaxAccounts

CsvRows == [Port_IDs : PortIds, Trade_History : RawFields]

CsvFiles ==
    {[status |-> "ok", columns |-> required_columns, rows |-> rows] :
        rows \in UNION {[1..n -> CsvRows] : n \in 0..MaxCsvRows}}
        \cup {[status |-> "notfound", columns |-> {}, rows |-> <<>>],
              [status |-> "unreadable", columns |-> {}, rows |-> <<>>],
              [status |-> "ok", columns |-> {"Port_IDs"}, rows |-> <<>>]}

Init ==
    /\ pc = "load"
    /\ csv \in CsvFiles
    /\ trade_data = EmptyTable
    /\ metrics = <<>>
    /\ top_n = 0
    /\ top_20 = <<>>
    /\ output = NoFile
    /\ error = NoError
    /\ stdout = <<>>

Spec == Init /\ [][Next]_vars

(***************************************************************************)
(* calculate_metrics on its own: the tables load_and_clean_data can        *)
(* return (no NaN, no infinity, no two equal rows), a realizedProfit that  *)
(* is a string included.                                                   *)
(***************************************************************************)
AllCols == {"Port_IDs"} \cup Fields

TradeRow(id, t) ==
    [Port_IDs |-> id, price |-> t.price, quantity |-> t.quantity,
     realizedProfit |-> t.realizedProfit]

TradeVals ==
    {Entry(F(1), F(1), F(1)), Entry(F(2), F(1), F(1)), Entry(F(2), F(2), F(0 - 1)),
     Entry(F(0), F(1), F(2)), Entry(F(1), F(1), F(0)), Entry(F(1), F(1), BadStr)}

NoTwoEqual(rows) == \A i, j \in 1..Len(rows) : i # j => rows[i] # rows[j]

TradeRows == {TradeRow(id, t) : id \in 1..MaxAccounts, t \in TradeVals}

\* a table whose mappings all lacked the quantity key
WithoutQuantity(row) == [row EXCEPT !.quantity = Absent]

TradeTables ==
    {Table(AllCols, rows) :
        rows \in {r \in UNION {[1..n -> TradeRows] : n \in 0..MaxRows} : NoTwoEqual(r)}}
        \cup {Table(AllCols \ {"quantity"}, <<WithoutQuantity(row)>>) : row \in TradeRows}

InitMetrics ==
    /\ pc = "metrics"
    /\ csv = [status |-> "ok", columns |-> required_columns, rows |-> <<>>]
    /\ trade_data \in TradeTables
    /\ metrics = <<>>
    /\ top_n = 0
    /\ top_20 = <<>>
    /\ output = NoFile
    /\ error = NoError
    /\ stdout = <<>>

NextMetrics == Metrics

SpecMetrics == InitMetrics /\ [][NextMetrics]_vars

(***************************************************************************)
(* rank_accounts on its own: the metrics of 1..MaxRanked accounts, each    *)
(* with one of a few trade histories.                                      *)
(***************************************************************************)
Histories ==
    {<<Entry(F(1), F(1), F(1)), Entry(F(2), F(1), F(0 - 1))>>,
     <<Entry(F(1), F(1), F(1)), Entry(F(1), F(2), F(2))>>,
     <<Entry(F(2), F(1), F(0 - 1)), Entry(F(1), F(1), F(1))>>,
     <<Entry(F(2), F(1), F(0 - 1)), Entry(F(1), F(1), F(0 - 2))>>,
     <<Entry(F(1), F(1), F(1))>>}

\* the trade table of accounts 1..Len(hs), account i with history hs[i]
TableOf(hs) ==
    Table(AllCols, Concat([i \in 1..Len(hs) |->
                              [j \in 1..Len(hs[i]) |-> TradeRow(i, hs[i][j])]]))

InitRank ==
    /\ pc = "rank"
    /\ csv = [status |-> "ok", columns |-> required_columns, rows |-> <<>>]
    /\ \E n \in 1..MaxRanked : \E hs \in [1..n -> Histories] :
           /\ trade_data = TableOf(hs)
           /\ metrics = calculate_metrics(TableOf(hs)).val
    /\ top_n = 0
    /\ top_20 = <<>>
    /\ output = NoFile
    /\ error = NoError
    /\ stdout = <<>>

NextRank == Rank

SpecRank == InitRank /\ [][NextRank]_vars

(***************************************************************************)
(* Claims about the main flow (specification Spec).                        *)
(***************************************************************************)
\* the progress lines of the main flow among the lines printed
StageLines ==
    Filter(stdout, {i \in 1..Len(stdout) :
                       stdout[i] \in {"Loading and cleaning data...", "Calculating metrics...",
                                      "Ranking accounts...",
                                      "Saving results to top_20_accounts.csv...",
                                      "Analysis complete."}})

AllStageLines ==
    <<"Loading and cleaning data...", "Calculating metrics...", "Ranking accounts...",
      "Saving results to top_20_accounts.csv...", "Analysis complete.">>

Completed == \E i \in 1..Len(stdout) : stdout[i] = "Analysis complete."

\* a stage before the writer has raised
LoadRaised == pc # "load" /\ ~load_and_clean_data(csv).ok
MetricsRaised == pc \notin {"load", "metrics"} /\ ~LoadRaised /\ ~calculate_metrics(trade_data).ok

\* C8, the states: the output file is written only in a run whose load,
\* metrics and rank calls all returned; a run in which one of them raised has
\* ended in failure with no output written and no "Analysis complete." line;
\* and the stages have run in the order load, metrics, rank, save.
C8_State ==
    /\ output.written =>
           /\ load_and_clean_data(csv).ok
           /\ calculate_metrics(trade_data).ok
           /\ top_n > 0
           /\ StageLines = AllStageLines
    /\ (LoadRaised \/ MetricsRaised) =>
           /\ pc = "failed"
           /\ ~output.written
           /\ ~Completed
           /\ error # NoError
    /\ LoadRaised => StageLines = SubSeq(AllStageLines, 1, 1)
    /\ MetricsRaised => StageLines = SubSeq(AllStageLines, 1, 2)
    /\ \E n \in 0..Len(AllStageLines) : StageLines = SubSeq(AllStageLines, 1, n)
    /\ Completed <=> pc = "done"
    /\ pc = "done" <=> output.written

\* C8: the writer runs only after load, metrics and rank have all returned; in
\* every run where one of them raises nothing is written, the run ends in
\* failure without the completion message, and no stage runs after a failure
\* (no step leaves a failed run).
C8_WriterOnlyAfterSuccess == [](C8_State) /\ [][pc # "failed"]_vars

\* a run in which calculate_metrics raised and so ended, nothing written
C8_Witness == MetricsRaised /\ pc = "failed" /\ ~output.written

(***************************************************************************)
(* Claims about validate_json_string and load_and_clean_data               *)
(* (specification Spec).                                                   *)
(***************************************************************************)
\* the file was read and has its columns: the Trade_History column is parsed
Parsed == pc # "load" /\ csv.status = "ok" /\ required_columns \subseteq csv.columns

\* C3: validate_json_string is total: on every raw field of the file it returns
\* a decoded value or None, so no exception of it ends load_and_clean_data.
C3_DecodeNeverRaises ==
    Parsed => /\ \A i \in 1..Len(csv.rows) : validate_json_string(csv.rows[i].Trade_History).ok
              /\ error.exc # "TypeError"

\* the rows whose Trade_History decoded to a value, in the order of the file
Decodable ==
    Filter(csv.rows, {i \in 1..Len(csv.rows) :
                         LET out == validate_json_string(csv.rows[i].Trade_History)
                         IN  out.ok /\ out.val # None})

\* the normalization of lines 50-59 has run
NormalizeRan ==
    /\ Parsed
    /\ \A i \in 1..Len(csv.rows) : validate_json_string(csv.rows[i].Trade_History).ok
    /\ Decodable # <<>>

\* the keys the mappings of the decodable rows have
KeysSeen ==
    {f \in Fields : \E i \in 1..Len(Decodable) :
        LET items == validate_json_string(Decodable[i].Trade_History).val.items
        IN  \E j \in 1..Len(items) : items[j][f].k # "absent"}

\* one TradeRow per entry of each decodable row, with that row's Port_IDs
ExpectedTradeRows ==
    Concat([i \in 1..Len(Decodable) |->
               LET items == validate_json_string(Decodable[i].Trade_History).val.items
               IN  [j \in 1..Len(items) |->
                       [Port_IDs |-> Decodable[i].Port_IDs,
                        price |-> Cell(KeysSeen, "price", items[j].price),
                        quantity |-> Cell(KeysSeen, "quantity", items[j].quantity),
                        realizedProfit |-> Cell(KeysSeen, "realizedProfit",
                                                items[j].realizedProfit)]]])

\* the rows of the table of lines 56-59 that carry an entry (a padding row
\* has NaN in every column of the entries)
EmittedTradeRows ==
    LET t == Normalize(DropInvalid(ApplyValidate(csv.rows).val))
    IN  Filter(t.rows, {i \in 1..Len(t.rows) :
                           \E f \in Fields : t.rows[i][f].k \notin {"nan", "absent"}})

\* C4: before de-duplication and cleaning, every decodable row gives exactly
\* one TradeRow per entry of its list (none for an empty list), and each
\* TradeRow carries the Port_IDs of the row its entry came from, with the
\* entry's own fields.
C4_RowsKeepTheirAccount == NormalizeRan => EmittedTradeRows = ExpectedTradeRows

\* C7: load_and_clean_data never returns an empty table (it raises when no row
\* is left after cleaning), and a row it returns has no NaN and no infinity and
\* is not equal to another row it returns.
C7_NeverReturnsEmpty ==
    (pc # "load" /\ load_and_clean_data(csv).ok) =>
        /\ trade_data.rows # <<>>
        /\ \A i \in 1..Len(trade_data.rows) :
               \A f \in Fields : trade_data.rows[i][f].k \notin {"nan", "inf", "ninf"}
        /\ NoTwoEqual(trade_data.rows)

(***************************************************************************)
(* Claims about calculate_metrics (specification SpecMetrics).             *)
(***************************************************************************)
\* calculate_metrics has returned
MetricsReturned == pc = "rank"

\* the rows of an account, in the order of the table
RowsOf(account) ==
    Filter(trade_data.rows, {i \in 1..Len(trade_data.rows) :
                                trade_data.rows[i].Port_IDs = account})

\* the realizedProfit values of an account are all the same number
AllEqualProfit(account) ==
    \A i, j \in 1..Len(RowsOf(account)) :
        RowsOf(account)[i].realizedProfit = RowsOf(account)[j].realizedProfit

\* C5: every record calculate_metrics returns has a Sharpe_Ratio that is a
\* number, never NaN: for an account of one row it is that row's
\* realizedProfit (the divisor is 1), and for an account of two or more rows
\* whose realizedProfit values are all equal it is 0.
C5_SharpeIsANumber ==
    MetricsReturned =>
        \A i \in 1..Len(metrics) :
            LET rows == RowsOf(metrics[i].Port_IDs) IN
            /\ IsNum(metrics[i].Sharpe_Ratio)
            /\ Len(rows) = 1 => metrics[i].Sharpe_Ratio = rows[1].realizedProfit
            /\ (Len(rows) >= 2 /\ AllEqualProfit(metrics[i].Port_IDs)) =>
                   metrics[i].Sharpe_Ratio = Num(0)

\* the computation of an account raises: one of its realizedProfit values is
\* no number
Raises(account) ==
    \E i \in 1..Len(trade_data.rows) :
        /\ trade_data.rows[i].Port_IDs = account
        /\ trade_data.rows[i].realizedProfit.k = "str"

\* the row at which an account first appears
FirstRow(account) ==
    Min({i \in 1..Len(trade_data.rows) : trade_data.rows[i].Port_IDs = account})

AccountsOf(t) == {t.rows[i].Port_IDs : i \in 1..Len(t.rows)}

\* C6: the records returned are those of exactly the accounts whose
\* computation did not raise, one record per account, in the order in which
\* the accounts first appear in the table; and calculate_metrics raises "No
\* valid metrics could be calculated" exactly when the table is not empty, has
\* the required columns, and the computation of every account raised.
C6_FailuresAreIsolated ==
    LET usable == trade_data.rows # <<>> /\ Fields \subseteq trade_data.cols
        good == {a \in AccountsOf(trade_data) : ~Raises(a)}
    IN  /\ MetricsReturned =>
               /\ {metrics[i].Port_IDs : i \in 1..Len(metrics)} = good
               /\ Len(metrics) = Cardinality(good)
               /\ \A i, j \in 1..Len(metrics) :
                      i < j => FirstRow(metrics[i].Port_IDs) < FirstRow(metrics[j].Port_IDs)
        /\ pc # "metrics" =>
               /\ (usable /\ good # {}) => MetricsReturned
               /\ (pc = "failed" /\ error.msg = "No valid metrics could be calculated")
                      <=> (usable /\ good = {})

\* calculate_metrics has returned the record of an account that comes after
\* an account whose computation raised
C6_Witness ==
    /\ MetricsReturned
    /\ \E a, b \in AccountsOf(trade_data) :
           /\ Raises(a) /\ ~Raises(b) /\ FirstRow(a) < FirstRow(b)
           /\ \E i \in 1..Len(metrics) : metrics[i].Port_IDs = b

\* the cumulative sum of the realizedProfit of the first i rows
CumulativeProfit(rows, i) == Sum([j \in 1..i |-> rows[j].realizedProfit.v])

\* price * quantity of a row
Balance(row) == (row.price.v * row.quantity.v) \div Scale

\* C9: in every record returned Win_Positions <= Total_Positions and MDD >= 0,
\* MDD being the largest of (the running maximum of the cumulative
\* realizedProfit so far minus the current cumulative realizedProfit) over the
\* rows in order; ROI is (final - initial) / initial for the price * quantity
\* of the first and the last row, and 0 when initial is 0; an account of one
\* row has ROI = 0 and MDD = 0.
C9_MetricsFormulas ==
    MetricsReturned =>
        \A i \in 1..Len(metrics) :
            LET rows == RowsOf(metrics[i].Port_IDs)
                n == Len(rows)
                initial == Balance(rows[1])
                final == Balance(rows[n])
            IN  /\ metrics[i].Win_Positions <= metrics[i].Total_Positions
                /\ metrics[i].Total_Positions = n
                /\ metrics[i].MDD.v >= 0
                /\ metrics[i].MDD.v =
                       Max(UNION {{CumulativeProfit(rows, a) - CumulativeProfit(rows, b) :
                                      a \in 1..b} : b \in 1..n})
                /\ initial # 0 => metrics[i].ROI = Num(FDiv(final - initial, initial))
                /\ initial = 0 => metrics[i].ROI = Num(0)
                /\ n = 1 => (metrics[i].ROI = Num(0) /\ metrics[i].MDD = Num(0))

\* a record of an account of two or more rows with a drawdown and a ROI
\* that is not 0
C9_Witness ==
    /\ MetricsReturned
    /\ \E i \in 1..Len(metrics) :
           /\ metrics[i].Total_Positions >= 2
           /\ metrics[i].MDD.v > 0
           /\ metrics[i].ROI.v # 0

(***************************************************************************)
(* Claims about rank_accounts (specification SpecRank).                    *)
(***************************************************************************)
\* rank_accounts has returned
RankReturned == pc = "save"

Accounts == 1..Len(metrics)

\* the accounts whose Score is a number
Scored == {i \in Accounts : IsNum(metrics[i].Score)}

\* the accounts with a strictly higher Score, and those with the same Score
Higher(i) == {j \in Scored : metrics[j].Score.v > metrics[i].Score.v}
Tied(i) == {j \in Scored : metrics[j].Score.v = metrics[i].Score.v}

\* C1 as claimed: accounts of equal Score have the same Rank, and the Rank is
\* the standard competition rank, 1 + the number of accounts with a strictly
\* higher Score (the best accounts have Rank 1, and after k accounts tied at
\* rank r the next lower Score has rank r + k).
C1_CompetitionRanking ==
    RankReturned =>
        \A i \in Scored :
            /\ \A j \in Tied(i) : metrics[j].Rank = metrics[i].Rank
            /\ metrics[i].Rank = Num((1 + Cardinality(Higher(i))) * Scale)

\* C1 as amended: accounts of equal Score have the same Rank, and the Rank is
\* the mean of the places the tied accounts take: with h accounts of strictly
\* higher Score and k accounts at the Score, the Rank is h + (k + 1) / 2 (so
\* 2 * Rank = 2 * h + k + 1); an account whose Score is NaN has the Rank NaN.
C1_AverageRanking ==
    RankReturned =>
        \A i \in Accounts :
            IF i \in Scored
            THEN /\ IsNum(metrics[i].Rank)
                 /\ \A j \in Tied(i) : metrics[j].Rank = metrics[i].Rank
                 /\ 2 * metrics[i].Rank.v =
                        (2 * Cardinality(Higher(i)) + Cardinality(Tied(i)) + 1) * Scale
            ELSE IsNaN(metrics[i].Rank)

\* two accounts tied for the best Score (both with Rank 1.5) and a third
\* account below them (Rank 3)
C1_Witness ==
    /\ RankReturned
    /\ \E i, j, l \in Scored :
           /\ i # j /\ Tied(i) = {i, j} /\ Higher(i) = {}
           /\ Higher(l) = {i, j}
           /\ 2 * metrics[i].Rank.v = 3 * Scale
           /\ metrics[l].Rank.v = 3 * Scale

\* the accounts with a Rank that is a number
WithNumericRank == {i \in Accounts : IsNum(metrics[i].Rank)}

\* the accounts of the rows returned
Selected == {i \in Accounts : \E a \in 1..Len(top_20) : top_20[a].Port_IDs = metrics[i].Port_IDs}

\* C2 as claimed: the selection is by rank value: every account whose Rank is
\* that of a selected account is selected too, even past top_n rows.
C2_SelectionByRankValue ==
    RankReturned =>
        \A i \in WithNumericRank :
            (\E s \in Selected : metrics[s].Rank = metrics[i].Rank) => i \in Selected

\* C2 as amended: the selection is by row count.  No more than top_n rows are
\* returned, each a row of the table and no account twice, in ascending Rank;
\* of the m accounts whose Rank is a number the min(top_n, m) best are
\* returned, and where accounts tie at the last rank kept, the ones earlier in
\* the table are kept and the others left out; accounts whose Rank is NaN come
\* after the ranked ones, if at all.
C2_SelectionByRowCount ==
    RankReturned =>
        LET kept == Selected \cap WithNumericRank
            m == Cardinality(WithNumericRank)
        IN  /\ Len(top_20) <= top_n
            /\ \A a \in 1..Len(top_20) : \E i \in Accounts : top_20[a] = metrics[i]
            /\ \A a, b \in 1..Len(top_20) : a # b => top_20[a].Port_IDs # top_20[b].Port_IDs
            /\ Cardinality(kept) = IF top_n < m THEN top_n ELSE m
            /\ \A a, b \in 1..Len(top_20) :
                   a < b => \/ IsNaN(top_20[b].Rank)
                            \/ /\ IsNum(top_20[a].Rank)
                               /\ top_20[a].Rank.v <= top_20[b].Rank.v
            /\ \A s \in kept : \A i \in WithNumericRank \ kept :
                   \/ metrics[s].Rank.v < metrics[i].Rank.v
                   \/ (metrics[s].Rank.v = metrics[i].Rank.v /\ s < i)

\* two accounts tied at the last rank kept, one returned and one left out
C2_Witness ==
    /\ RankReturned
    /\ \E s \in Selected \cap WithNumericRank : \E i \in WithNumericRank \ Selected :
           metrics[s].Rank = metrics[i].Rank

Weighted == {"ROI", "PnL", "Sharpe_Ratio", "Win_Rate"}

NormalizedOf(i, col) ==
    CASE col = "ROI" -> metrics[i].ROI_normalized
      [] col = "PnL" -> metrics[i].PnL_normalized
      [] col = "Sharpe_Ratio" -> metrics[i].Sharpe_Ratio_normalized
      [] col = "Win_Rate" -> metrics[i].Win_Rate_normalized

\* the accounts for which a metric is a number
Known(col) == {i \in Accounts : IsNum(metrics[i][col])}

\* a metric has nonzero spread: two accounts differ in it
Spread(col) == \E i, j \in Known(col) : metrics[i][col].v # metrics[j][col].v

\* a metric has the same value for all accounts
NoSpread(col) ==
    /\ Known(col) = Accounts
    /\ \A i, j \in Accounts : metrics[i][col].v = metrics[j][col].v

\* C10: for each of the four weighted metrics with nonzero spread, the
\* normalized value of every account is a number in [0, 1], 0 for the account
\* with the least and 1 for the account with the greatest value; when all four
\* have nonzero spread, the Score of every account is in [0, 1]; and a metric
\* whose greatest value equals its least has the normalized value NaN for
\* every account.
C10_NormalizedInUnitInterval ==
    RankReturned =>
        /\ \A col \in Weighted :
               /\ Spread(col) =>
                      \A i \in Accounts :
                          /\ IsNum(NormalizedOf(i, col))
                          /\ 0 <= NormalizedOf(i, col).v
                          /\ NormalizedOf(i, col).v <= Scale
                          /\ (\A j \in Known(col) : metrics[i][col].v <= metrics[j][col].v)
                                 => NormalizedOf(i, col).v = 0
                          /\ (\A j \in Known(col) : metrics[i][col].v >= metrics[j][col].v)
                                 => NormalizedOf(i, col).v = Scale
               /\ NoSpread(col) => \A i \in Accounts : IsNaN(NormalizedOf(i, col))
        /\ (\A col \in Weighted : Spread(col)) =>
               \A i \in Accounts :
                   /\ IsNum(metrics[i].Score)
                   /\ 0 <= metrics[i].Score.v
                   /\ metrics[i].Score.v <= Scale

====
